---- MODULE Spec2Model ----
(***************************************************************************)
(* Model of the Monotron serial interface frame encoder (CommandWriter,    *)
(* src/src/lib.rs): a SLIP-style byte-stuffing writer that is drained one  *)
(* byte at a time with get_byte.                                           *)
(*                                                                         *)
(* The encoder is the record cw; its fields are the fields of the struct.  *)
(* Every method is a pure operator from the struct before to the struct    *)
(* after (get_byte also yields the returned Option<u8>), and every action  *)
(* applies one method.  out, at, start, phase and prior are history        *)
(* variables: they record what get_byte returned and how the current drain *)
(* began, and no method reads them.                                        *)
(***************************************************************************)
EXTENDS Integers, Sequences, FiniteSets

VARIABLES cw, out, at, start, phase, prior

vars == <<cw, out, at, start, phase, prior>>

----------------------------------------------------------------------------
(* Bounds of the model *)

\* longest payload drawn for an initial state of SpecDrain
MaxLen == 3

\* longest payload drawn for an initial state of SpecAny
MaxAny == 2

\* longest payload LoadPayload writes in SpecLoad
MaxLoad == 1

\* how many of the None returned after exhaustion the history records
MaxNones == 2

----------------------------------------------------------------------------
(* Constants of the program *)

\* bytes: [u8; 32]
Cap == 32

PING_REQ == 1

PING_CFM == 129

END == 192

ESC == 219

ESC_END == 220

ESC_ESC == 221

\* Option::None, the value get_byte returns once the frame is exhausted;
\* Some(b) is modelled as the byte b in 0..255
None == -1

----------------------------------------------------------------------------
(* crc::crc16::checksum_x25: CRC-16/X25, reflected polynomial 0x8408,      *)
(* initial value 0xFFFF, final xor 0xFFFF                                  *)

RECURSIVE Xor(_, _)
Xor(a, b) ==
    IF a = 0 THEN b
    ELSE IF b = 0 THEN a
    ELSE (((a % 2) + (b % 2)) % 2) + 2 * Xor(a \div 2, b \div 2)

RECURSIVE crc_bits(_, _)
crc_bits(c, n) ==
    IF n = 0 THEN c
    ELSE crc_bits(IF c % 2 = 1 THEN Xor(c \div 2, 33800) ELSE c \div 2, n - 1)

RECURSIVE crc_update(_, _, _)
crc_update(c, data, i) ==
    IF i > Len(data) THEN c
    ELSE LET next == crc_bits(Xor(c, data[i]), 8) IN
         \* the register is computed byte by byte (it is never negative)
         IF next < 0 THEN next ELSE crc_update(next, data, i + 1)

\* mutant: the CRC register starts at 0 and is not inverted (CRC-16/KERMIT)
checksum_kermit(data) == crc_update(0, data, 1)

checksum_x25(data) == Xor(crc_update(65535, data, 1), 65535)

----------------------------------------------------------------------------
(* CommandWriter *)

\* &self.bytes[0..self.count], as a sequence
Payload(self) == [i \in 1..self.count |-> self.bytes[i - 1]]

new ==
    [bytes |-> [i \in 0..(Cap - 1) |-> 0],
     sent |-> 0,
     count |-> 0,
     had_escape |-> FALSE,
     crc |-> 0]

\* mutant: reset clears the escape flag too
reset_clears_escape(self) ==
    [self EXCEPT !.sent = 0, !.count = 0, !.had_escape = FALSE]

\* mutant: reset also clears the checksum
reset_clears_crc(self) ==
    [self EXCEPT !.sent = 0, !.count = 0, !.crc = 0]

reset(self) == [self EXCEPT !.sent = 0, !.count = 0]

\* mutant: the checksum is computed but the cursor is not rewound
prep_for_send_keeps_cursor(self) ==
    [self EXCEPT !.crc = checksum_x25(Payload(self))]

prep_for_send(self) ==
    [self EXCEPT !.sent = 0, !.crc = checksum_x25(Payload(self))]

\* mutant: the command is loaded but prep_for_send is not called
send_ping_req_no_prep(self) == [self EXCEPT !.bytes[0] = PING_REQ, !.count = 1]

send_ping_req(self) ==
    prep_for_send([self EXCEPT !.bytes[0] = PING_REQ, !.count = 1])

send_ping_cfm(self) ==
    prep_for_send([self EXCEPT !.bytes[0] = PING_CFM, !.count = 1])

\* mutant: every byte with the high bit set is escaped
need_escape_high_bit(byte) == byte >= 128

\* mutant: the END arm is missing
need_escape_esc_only(byte) == byte = ESC

need_escape(byte) == byte = END \/ byte = ESC

\* mutant: both arms give ESC_END
escape_both_end(byte) ==
    IF byte = END THEN ESC_END
    ELSE IF byte = ESC THEN ESC_END
    ELSE byte

\* mutant: the two arms are exchanged
escape_swapped(byte) ==
    CASE byte = END -> ESC_ESC
      [] byte = ESC -> ESC_END
      [] OTHER -> byte

escape(byte) ==
    CASE byte = END -> ESC_END
      [] byte = ESC -> ESC_ESC
      [] OTHER -> byte

\* mutant: the cursor does not advance when the escaped value is sent
escape_and_send_stays(self, to_send) ==
    IF ~need_escape(to_send)
    THEN [self |-> [self EXCEPT !.sent = @ + 1], ret |-> to_send]
    ELSE IF ~self.had_escape
         THEN [self |-> [self EXCEPT !.had_escape = TRUE], ret |-> ESC]
         ELSE [self |-> [self EXCEPT !.had_escape = FALSE], ret |-> escape(to_send)]

\* mutant: the escape flag is not cleared when the escaped value is sent
escape_and_send_keeps_flag(self, to_send) ==
    IF ~need_escape(to_send)
    THEN [self |-> [self EXCEPT !.sent = @ + 1], ret |-> to_send]
    ELSE IF ~self.had_escape
         THEN [self |-> [self EXCEPT !.had_escape = TRUE], ret |-> ESC]
         ELSE [self |-> [self EXCEPT !.sent = @ + 1], ret |-> escape(to_send)]

\* mutant: the cursor advances on the escape prefix and the escaped value is
\* never sent
escape_and_send_prefix_only(self, to_send) ==
    IF ~need_escape(to_send)
    THEN [self |-> [self EXCEPT !.sent = @ + 1], ret |-> to_send]
    ELSE [self |-> [self EXCEPT !.sent = @ + 1], ret |-> ESC]

\* the struct after the call and the byte returned
escape_and_send(self, to_send) ==
    IF ~need_escape(to_send)
    THEN [self |-> [self EXCEPT !.sent = @ + 1], ret |-> to_send]
    ELSE IF ~self.had_escape
         THEN [self |-> [self EXCEPT !.had_escape = TRUE], ret |-> ESC]
         ELSE [self |-> [self EXCEPT !.sent = @ + 1, !.had_escape = FALSE],
               ret |-> escape(to_send)]

\* mutant: the low byte of the checksum is sent before the high byte
get_byte_low_first(self) ==
    IF self.sent = 0
    THEN [self |-> [self EXCEPT !.sent = @ + 1], ret |-> END]
    ELSE IF self.sent <= self.count
    THEN escape_and_send(self, self.bytes[self.sent - 1])
    ELSE IF self.sent = self.count + 1
    THEN escape_and_send(self, self.crc % 256)
    ELSE IF self.sent = self.count + 2
    THEN escape_and_send(self, (self.crc \div 256) % 256)
    ELSE IF self.sent = self.count + 3
    THEN [self |-> [self EXCEPT !.sent = @ + 1], ret |-> END]
    ELSE [self |-> self, ret |-> None]

\* mutant: a call made after the final 0xC0 still advances the cursor
get_byte_counts_on(self) ==
    IF self.sent = 0
    THEN [self |-> [self EXCEPT !.sent = @ + 1], ret |-> END]
    ELSE IF self.sent <= self.count
    THEN escape_and_send(self, self.bytes[self.sent - 1])
    ELSE IF self.sent = self.count + 1
    THEN escape_and_send(self, (self.crc \div 256) % 256)
    ELSE IF self.sent = self.count + 2
    THEN escape_and_send(self, self.crc % 256)
    ELSE IF self.sent = self.count + 3
    THEN [self |-> [self EXCEPT !.sent = @ + 1], ret |-> END]
    ELSE [self |-> [self EXCEPT !.sent = @ + 1], ret |-> None]

\* mutant: the final 0xC0 consumes the frame, clearing count
get_byte_consumes(self) ==
    IF self.sent = 0
    THEN [self |-> [self EXCEPT !.sent = @ + 1], ret |-> END]
    ELSE IF self.sent <= self.count
    THEN escape_and_send(self, self.bytes[self.sent - 1])
    ELSE IF self.sent = self.count + 1
    THEN escape_and_send(self, (self.crc \div 256) % 256)
    ELSE IF self.sent = self.count + 2
    THEN escape_and_send(self, self.crc % 256)
    ELSE IF self.sent = self.count + 3
    THEN [self |-> [self EXCEPT !.sent = 4, !.count = 0], ret |-> END]
    ELSE [self |-> self, ret |-> None]

\* mutant: an exhausted encoder rewinds its cursor when it returns None
get_byte_rewinds(self) ==
    IF self.sent = 0
    THEN [self |-> [self EXCEPT !.sent = @ + 1], ret |-> END]
    ELSE IF self.sent <= self.count
    THEN escape_and_send(self, self.bytes[self.sent - 1])
    ELSE IF self.sent = self.count + 1
    THEN escape_and_send(self, (self.crc \div 256) % 256)
    ELSE IF self.sent = self.count + 2
    THEN escape_and_send(self, self.crc % 256)
    ELSE IF self.sent = self.count + 3
    THEN [self |-> [self EXCEPT !.sent = @ + 1], ret |-> END]
    ELSE [self |-> [self EXCEPT !.sent = 0], ret |-> None]

\* the struct after the call and the Option<u8> returned
get_byte(self) ==
    IF self.sent = 0
    THEN [self |-> [self EXCEPT !.sent = @ + 1], ret |-> END]
    ELSE IF self.sent <= self.count
    THEN escape_and_send(self, self.bytes[self.sent - 1])
    ELSE IF self.sent = self.count + 1
    THEN escape_and_send(self, (self.crc \div 256) % 256)
    ELSE IF self.sent = self.count + 2
    THEN escape_and_send(self, self.crc % 256)
    ELSE IF self.sent = self.count + 3
    THEN [self |-> [self EXCEPT !.sent = @ + 1], ret |-> END]
    ELSE [self |-> self, ret |-> None]

\* loadPayload of the specification: copy data into payload[0..len) and set
\* length = len; the checksum and the cursor are left alone
load_payload(self, data) ==
    [self EXCEPT !.bytes = [i \in 0..(Cap - 1) |->
                               IF i < Len(data) THEN data[i + 1] ELSE @[i]],
                 !.count = Len(data)]

----------------------------------------------------------------------------
(* History *)

Last(s) == s[Len(s)]

\* the number of None at the end of s
RECURSIVE Nones(_)
Nones(s) ==
    IF s = <<>> \/ Last(s) # None THEN 0 ELSE 1 + Nones(SubSeq(s, 1, Len(s) - 1))

\* get_byte has returned None in the current observation
Exhausted == out # <<>> /\ Last(out) = None

\* the phases an observation begun by prep_for_send is in
PrepPhases == {"prep", "reset_prep", "reset_load_prep", "reset_reload_prep"}

\* prior is kept from a reset to the next operation other than get_byte: the
\* payload the encoder held when reset was called, and whether the
\* observation reset ended had begun with prep_for_send and no escape pending
NoPrior == [data |-> <<>>, finalized |-> FALSE]

\* the phase a loadPayload of data leads to: one that directly follows reset
\* is told from any other, and one that reloads the payload of the finalized
\* drain reset ended from one that loads another
LoadPhase(data) ==
    IF out # <<>> \/ phase # "reset" THEN "load"
    ELSE IF prior.finalized /\ prior.data = data THEN "reset_reload"
    ELSE "reset_load"

\* the phase a prep_for_send leads to: a prep_for_send that directly follows
\* reset, or reset and loadPayload, is told from any other
PrepPhase ==
    IF out # <<>> THEN "prep"
    ELSE IF phase = "reset" THEN "reset_prep"
    ELSE IF phase = "reset_load" THEN "reset_load_prep"
    ELSE IF phase = "reset_reload" THEN "reset_reload_prep"
    ELSE "prep"

----------------------------------------------------------------------------
(* Actions: one per method.  An operation other than get_byte starts a new *)
(* observation: out and at are emptied and start is the struct it leaves.  *)

Reset ==
    /\ cw' = reset(cw)
    /\ out' = <<>>
    /\ at' = <<>>
    /\ start' = cw'
    /\ phase' = "reset"
    /\ prior' = [data |-> Payload(cw),
                 finalized |-> phase \in PrepPhases /\ ~start.had_escape]

PrepForSend ==
    /\ cw' = prep_for_send(cw)
    /\ out' = <<>>
    /\ at' = <<>>
    /\ start' = cw'
    /\ phase' = PrepPhase
    /\ prior' = NoPrior

SendPingReq ==
    /\ cw' = send_ping_req(cw)
    /\ out' = <<>>
    /\ at' = <<>>
    /\ start' = cw'
    /\ phase' = "ping_req"
    /\ prior' = NoPrior

SendPingCfm ==
    /\ cw' = send_ping_cfm(cw)
    /\ out' = <<>>
    /\ at' = <<>>
    /\ start' = cw'
    /\ phase' = "ping_cfm"
    /\ prior' = NoPrior

\* out holds the values returned since the observation began and at the
\* cursor position each call was made at; of the None returned after
\* exhaustion the first MaxNones are recorded
GetByte ==
    LET r == get_byte(cw) IN
    /\ cw' = r.self
    /\ IF r.ret = None /\ Nones(out) >= MaxNones
       THEN UNCHANGED <<out, at>>
       ELSE /\ out' = Append(out, r.ret)
            /\ at' = Append(at, cw.sent)
    /\ UNCHANGED <<start, phase, prior>>

----------------------------------------------------------------------------
(* Spec: the operations the crate exposes, from CommandWriter::new() *)

Init ==
    /\ cw = new
    /\ out = <<>>
    /\ at = <<>>
    /\ start = new
    /\ phase = "new"
    /\ prior = NoPrior

Next ==
    \/ Reset
    \/ PrepForSend
    \/ SendPingReq
    \/ SendPingCfm
    \/ GetByte

Spec == Init /\ [][Next]_vars

----------------------------------------------------------------------------
(* SpecDrain: get_byte alone, from every finalized encoder (sent = 0,      *)
(* had_escape = false) over a bounded choice of buffer, length and crc     *)

SeqsUpTo(S, n) == UNION {[1..k -> S] : k \in 0..n}

\* payload bytes drawn: one that needs no escaping and has a checksum that
\* does not either (0x01, crc 0xE1F1), one that needs no escaping and has a
\* checksum that does (0x21, crc 0xC0F3), END and ESC
DrainBytes == {PING_REQ, 33, END, ESC}

\* checksums drawn besides the checksum of the payload: no byte, the high
\* byte, the low byte and both bytes needing escaping
\* 0x0000, 0xE1F1, 0xC0F3, 0x12DB, 0xC0DB, 0xDBC0
CrcSamples == {0, 57841, 49395, 4827, 49371, 56256}

\* the buffers drawn: every payload of at most maxlen bytes, the rest of the
\* buffer 0, and the buffers filled to capacity with one byte
Buffers(maxlen) ==
    SeqsUpTo(DrainBytes, maxlen) \cup {[i \in 1..Cap |-> b] : b \in DrainBytes}

\* the lengths drawn with a buffer: a full buffer is drawn at full length
Counts(data) == IF Len(data) = Cap THEN {Cap} ELSE 0..Len(data)

\* the encoder holds the first n bytes of a drawn buffer and a drawn checksum
Drawn(maxlen) ==
    \E data \in Buffers(maxlen) :
      \E n \in Counts(data) :
        \E c \in CrcSamples \cup {checksum_x25(SubSeq(data, 1, n))} :
          /\ cw = [load_payload(new, data) EXCEPT !.count = n, !.crc = c]
          /\ out = <<>>
          /\ at = <<>>
          /\ start = cw
          /\ phase = "finalized"
          /\ prior = NoPrior

InitDrain == Drawn(MaxLen)

NextDrain == GetByte

SpecDrain == InitDrain /\ [][NextDrain]_vars

----------------------------------------------------------------------------
(* SpecAny: the operations the crate exposes, from every finalized encoder *)
(* drawn                                                                   *)

InitAny == Drawn(MaxAny)

SpecAny == InitAny /\ [][Next]_vars

----------------------------------------------------------------------------
(* SpecLoad: the operations of Spec and loadPayload, from new() *)

LoadBytes == {33, END, ESC}

LoadPayload ==
    \E data \in SeqsUpTo(LoadBytes, MaxLoad) :
      /\ cw' = load_payload(cw, data)
      /\ out' = <<>>
      /\ at' = <<>>
      /\ start' = cw'
      /\ phase' = LoadPhase(data)
      /\ prior' = NoPrior

NextLoad ==
    \/ Next
    \/ LoadPayload

SpecLoad == Init /\ [][NextLoad]_vars

----------------------------------------------------------------------------
(* The wire format the claims state, written out without the encoder *)

IsPrefix(s, t) == Len(s) <= Len(t) /\ s = SubSeq(t, 1, Len(s))

\* the bytes returned in the current observation, without the None
Somes == SubSeq(out, 1, Len(out) - Nones(out))

\* the bytes returned by the calls made at cursor position k
BytesAt(k) ==
    LET idx == {i \in 1..Len(Somes) : at[i] = k}
        F[n \in 0..Len(Somes)] ==
            IF n = 0 THEN <<>>
            ELSE IF n \in idx THEN Append(F[n - 1], out[n]) ELSE F[n - 1]
    IN F[Len(Somes)]

Stuff(b) ==
    IF b = 192 THEN <<219, 220>>
    ELSE IF b = 219 THEN <<219, 221>>
    ELSE <<b>>

RECURSIVE StuffAll(_)
StuffAll(s) == IF s = <<>> THEN <<>> ELSE Stuff(Head(s)) \o StuffAll(Tail(s))

Frame(data, crc) ==
    <<192>> \o StuffAll(data) \o Stuff(crc \div 256) \o Stuff(crc % 256) \o <<192>>

Nothing(n) == [i \in 1..n |-> None]

\* the number of bytes among data that are 0xC0 or 0xDB
Stuffed(data) == Cardinality({i \in 1..Len(data) : data[i] \in {192, 219}})

CrcBytes(self) == <<self.crc \div 256, self.crc % 256>>

\* the current drain began at cursor 0 with no escape pending
CleanDrain == start.sent = 0 /\ ~start.had_escape

\* the checksum held when the drain began is the checksum of its payload
Finalized == start.crc = checksum_x25(Payload(start))

----------------------------------------------------------------------------
(* Claims *)

\* C1: drained from sent = 0 with had_escape = false, the bytes get_byte
\* returns up to the first None are 0xC0, the stuffed payload bytes, the
\* stuffed high and low checksum byte, 0xC0, for every payload and checksum.
C1_FrameBytes ==
    CleanDrain =>
        /\ IsPrefix(Somes, Frame(Payload(start), start.crc))
        /\ Exhausted => Somes = Frame(Payload(start), start.crc)

C1_Witness ==
    /\ Exhausted
    /\ start.count = 2
    /\ Payload(start) = <<192, 219>>
    /\ start.crc = 49371
    /\ Somes = <<192, 219, 220, 219, 221, 219, 220, 219, 221, 192>>

\* C2: after send_ping_req, in whatever state it is called, the calls of
\* get_byte return 0xC0, 0x01, 0xE1, 0xF1, 0xC0 and then None.
C2_PingReq ==
    phase = "ping_req" =>
        IsPrefix(out, <<192, 1, 225, 241, 192>> \o Nothing(MaxNones))

C2_Witness ==
    /\ phase = "ping_req"
    /\ start.had_escape
    /\ out = <<192, 1, 225, 241, 192, None>>

\* C3: after send_ping_cfm, in whatever state it is called, the calls of
\* get_byte return 0xC0, 0x81, 0x65, 0xF9, 0xC0 and then None.
C3_PingCfm ==
    phase = "ping_cfm" =>
        IsPrefix(out, <<192, 129, 101, 249, 192>> \o Nothing(MaxNones))

C3_Witness ==
    /\ phase = "ping_cfm"
    /\ start.had_escape
    /\ out = <<192, 129, 101, 249, 192, None, None>>

\* C4: a drain from sent = 0 with had_escape = false returns exactly
\* L + 4 + k bytes before the first None, k the number of payload and
\* checksum bytes equal to 0xC0 or 0xDB.
C4_FrameLength ==
    (CleanDrain /\ Exhausted) =>
        Len(Somes) = start.count + 4
                     + Stuffed(Payload(start)) + Stuffed(CrcBytes(start))

C4_Witness ==
    /\ CleanDrain
    /\ Exhausted
    /\ start.count = 2
    /\ Stuffed(Payload(start)) = 2
    /\ Stuffed(CrcBytes(start)) = 1
    /\ Len(Somes) = 9

\* C5, as claimed: a finalized payload of length L > 0 none of whose bytes
\* is 0xC0 or 0xDB drains to exactly L + 4 bytes, whatever its checksum.
C5_Original ==
    (/\ CleanDrain
     /\ Finalized
     /\ Exhausted
     /\ start.count > 0
     /\ Stuffed(Payload(start)) = 0) => Len(Somes) = start.count + 4

\* C5, amended: a finalized payload of length L > 0 none of whose bytes is
\* 0xC0 or 0xDB drains to exactly L + 4 + k bytes, k in 0..2 the number of
\* bytes of its checksum equal to 0xC0 or 0xDB; to L + 4 when there is none.
C5_Amended ==
    (/\ CleanDrain
     /\ Finalized
     /\ Exhausted
     /\ start.count > 0
     /\ Stuffed(Payload(start)) = 0) =>
        /\ Len(Somes) = start.count + 4 + Stuffed(CrcBytes(start))
        /\ Somes = <<192>> \o Payload(start)
                     \o StuffAll(CrcBytes(start)) \o <<192>>

C5_Witness ==
    /\ CleanDrain
    /\ Finalized
    /\ Exhausted
    /\ Payload(start) = <<33>>
    /\ start.crc = 49395
    /\ Somes = <<192, 33, 219, 220, 243, 192>>

\* C6: once get_byte has returned None, every further call returns None
\* and leaves bytes, sent, count, had_escape and crc as they are, until
\* another operation is called.
C6_ExhaustedStays ==
    Exhausted =>
        /\ get_byte(cw).ret = None
        /\ get_byte(cw).self = cw
        /\ \A i \in 1..(Len(out) - 1) : out[i] = None => out[i + 1] = None

C6_Witness ==
    /\ Nones(out) = MaxNones
    /\ Len(out) > MaxNones
    /\ cw.count = 1
    /\ cw.sent = cw.count + 4

\* C7, first half: a call made at a payload or checksum position never
\* returns 0xC0; 0xC0 is returned only at sent = 0 and sent = count + 3.
C7_NoBareEnd ==
    \A i \in 1..Len(Somes) :
        /\ at[i] \in 1..(start.count + 2) => out[i] # 192
        /\ out[i] = 192 => at[i] \in {0, start.count + 3}

\* C7, as claimed: in every reachable state no call at a payload or checksum
\* position returns 0xC0, and a payload byte 0xC0 is emitted as the two
\* consecutive bytes 0xDB, 0xDC.
C7_Original ==
    /\ C7_NoBareEnd
    /\ \A k \in 1..start.count :
          (start.sent = 0 /\ start.bytes[k - 1] = 192 /\ cw.sent > k) =>
              BytesAt(k) = <<219, 220>>

\* C8: in a drain that starts with had_escape = false the calls at cursor
\* position count + 1 return the stuffed high byte of crc and the calls at
\* count + 2 the stuffed low byte, in that order, each escaped on its own.
C8_CrcHighFirst ==
    CleanDrain =>
        /\ \A i \in 1..(Len(Somes) - 1) : at[i] <= at[i + 1]
        /\ cw.sent > start.count + 1 =>
              BytesAt(start.count + 1) = Stuff(start.crc \div 256)
        /\ cw.sent > start.count + 2 =>
              BytesAt(start.count + 2) = Stuff(start.crc % 256)

C8_Witness ==
    /\ CleanDrain
    /\ start.crc = 49371
    /\ cw.sent = start.count + 3
    /\ BytesAt(start.count + 1) = <<219, 220>>
    /\ BytesAt(start.count + 2) = <<219, 221>>
    /\ SubSeq(out, Len(out) - 3, Len(out)) = <<219, 220, 219, 221>>

\* the values get_byte returns, up to and with the first None, when self is
\* drained; n bounds the number of calls
RECURSIVE Drain(_, _)
Drain(self, n) ==
    LET r == get_byte(self) IN
    IF n = 0 \/ r.ret = None THEN <<None>>
    ELSE <<r.ret>> \o Drain(r.self, n - 1)

\* the drain of a freshly created encoder that is loaded with data and
\* finalized
FreshDrain(data) ==
    Drain(prep_for_send(load_payload(new, data)), 2 * (Cap + 2) + 3)

\* C9, as claimed: after reset, at any point of the drain of a finalized
\* payload, then loadPayload of the same payload and prep_for_send, the bytes
\* get_byte returns up to the first None are those of a freshly created
\* encoder loaded with that payload and finalized.
C9_Original ==
    (phase = "reset_reload_prep" /\ Exhausted) =>
        Somes \o <<None>> = FreshDrain(Payload(start))

\* C10: reset sets sent = 0 and count = 0 and leaves had_escape, crc and the
\* 32 buffer bytes unchanged; the next get_byte returns 0xC0.
C10_ResetEffect ==
    [][Reset =>
        /\ cw'.sent = 0
        /\ cw'.count = 0
        /\ cw'.had_escape = cw.had_escape
        /\ cw'.crc = cw.crc
        /\ cw'.bytes = cw.bytes
        /\ get_byte(cw').ret = 192]_vars

C10_Witness ==
    /\ phase = "reset"
    /\ start.had_escape
    /\ start.crc # 0
    /\ start.bytes[0] = 192
    /\ start.count = 0
    /\ out = <<192>>
    /\ cw.sent = 1

\* C11: prep_for_send, in any state, sets sent = 0 and crc to the CRC-16/X25
\* of bytes[0..count) and leaves bytes, count and had_escape unchanged; the
\* rest of the previous frame is abandoned and the next get_byte returns 0xC0.
C11_PrepEffect ==
    [][PrepForSend =>
        /\ cw'.sent = 0
        /\ cw'.crc = checksum_x25([i \in 1..cw.count |-> cw.bytes[i - 1]])
        /\ (cw.count = 0 => cw'.crc = 0)
        /\ (cw.count = 1 /\ cw.bytes[0] = 1 => cw'.crc = 57841)
        /\ (cw.count = 1 /\ cw.bytes[0] = 33 => cw'.crc = 49395)
        /\ cw'.bytes = cw.bytes
        /\ cw'.count = cw.count
        /\ cw'.had_escape = cw.had_escape
        /\ get_byte(cw').ret = 192]_vars

C11_Witness ==
    /\ phase = "prep"
    /\ start.had_escape
    /\ start.count = 1
    /\ start.bytes[0] = 33
    /\ start.bytes[1] = 192
    /\ start.crc = 49395
    /\ out = <<192>>

\* the byte a call at payload or checksum position k sends
ByteAt(self, k) ==
    IF k <= self.count THEN self.bytes[k - 1]
    ELSE IF k = self.count + 1 THEN (self.crc \div 256) % 256
    ELSE self.crc % 256

\* C12: a call at a payload or checksum position whose byte b is 0xC0 or
\* 0xDB returns 0xDB, sets had_escape and keeps sent when had_escape is
\* false, and returns 0xDC (for 0xC0) or 0xDD (for 0xDB), clears had_escape
\* and adds 1 to sent when had_escape is true; for any other b it returns b,
\* adds 1 to sent and keeps had_escape.
C12_EscapeSteps ==
    [][(GetByte /\ cw.sent \in 1..(cw.count + 2)) =>
        LET b == ByteAt(cw, cw.sent) IN
        /\ out' # <<>>
        /\ Len(out') = Len(out) + 1
        /\ IF b \in {192, 219}
           THEN IF ~cw.had_escape
                THEN /\ Last(out') = 219
                     /\ cw'.had_escape
                     /\ cw'.sent = cw.sent
                ELSE /\ Last(out') = (IF b = 192 THEN 220 ELSE 221)
                     /\ ~cw'.had_escape
                     /\ cw'.sent = cw.sent + 1
           ELSE /\ Last(out') = b
                /\ cw'.sent = cw.sent + 1
                /\ cw'.had_escape = cw.had_escape]_vars

C12_Witness ==
    /\ Len(out) >= 4
    /\ out[Len(out) - 3] = 219
    /\ out[Len(out) - 2] = 220
    /\ out[Len(out) - 1] = 219
    /\ out[Len(out)] = 221
    /\ at[Len(out) - 1] = at[Len(out)]
    /\ at[Len(out)] = at[Len(out) - 2] + 1
    /\ ~cw.had_escape
    /\ cw.sent = at[Len(out)] + 1

\* C13, as claimed: had_escape = true implies 1 <= sent <= count + 2 and the
\* byte at cursor position sent is 0xC0 or 0xDB.
C13_Original ==
    cw.had_escape =>
        /\ cw.sent \in 1..(cw.count + 2)
        /\ ByteAt(cw, cw.sent) \in {192, 219}

\* C14, as claimed: in a drain begun after new, or after reset following an
\* earlier frame, with no prep_for_send since, crc = 0 and the two checksum
\* positions return 0x00 and 0x00.
C14_Original ==
    (phase = "new" \/ (phase = "reset" /\ prior.data # <<>>)) =>
        /\ cw.crc = 0
        /\ Exhausted =>
            /\ BytesAt(cw.count + 1) = <<0>>
            /\ BytesAt(cw.count + 2) = <<0>>

\* C14, amended: in a drain begun after new, crc = 0 and the two checksum
\* positions return 0x00 and 0x00; in a drain begun after reset, crc is the
\* checksum held before reset, for a frame with payload p the value
\* crc16_x25(p), and the checksum positions return its high and low byte.
C14_Amended ==
    /\ phase = "new" =>
        /\ cw.crc = 0
        /\ Exhausted =>
            /\ BytesAt(cw.count + 1) = <<0>>
            /\ BytesAt(cw.count + 2) = <<0>>
    /\ phase = "reset" =>
        /\ cw.count = 0
        /\ cw.crc = start.crc
        /\ prior.data # <<>> =>
            /\ cw.crc = checksum_x25(prior.data)
            /\ cw.crc # 0
        /\ Exhausted =>
            /\ BytesAt(1) = Stuff(cw.crc \div 256)
            /\ BytesAt(2) = Stuff(cw.crc % 256)

C14_Witness ==
    /\ phase = "reset"
    /\ prior.data = <<1>>
    /\ cw.crc = 57841
    /\ out = <<192, 225, 241, 192, None>>

\* C15: through new, reset, prep_for_send, send_ping_req, send_ping_cfm and
\* get_byte, count <= 32 and 0 <= sent <= count + 4; the index sent - 1 that
\* get_byte reads and the slice 0..count that prep_for_send reads are inside
\* the 32-byte buffer, and crc is a 16-bit value.
C15_InRange ==
    /\ cw.count \in 0..Cap
    /\ cw.sent \in 0..(cw.count + 4)
    /\ (cw.sent \in 1..cw.count => (cw.sent - 1) \in DOMAIN cw.bytes)
    /\ \A i \in 0..(cw.count - 1) : i \in DOMAIN cw.bytes
    /\ cw.crc \in 0..65535
    /\ get_byte(cw).self.sent \in 0..(cw.count + 4)

C15_Witness ==
    /\ cw.count = 1
    /\ cw.sent = cw.count + 4
    /\ Nones(out) = MaxNones

\* the number of calls of get_byte that return a byte before one returns
\* None, or -1 when more than fuel calls return a byte
RECURSIVE SomeCalls(_, _, _)
SomeCalls(self, fuel, k) ==
    LET r == get_byte(self) IN
    IF r.ret = None THEN k
    ELSE IF fuel = 0 \/ r.self.sent < 0 \/ k < 0 THEN -1
    ELSE SomeCalls(r.self, fuel - 1, k + 1)

\* C16: from every reachable state, also one with a stale had_escape,
\* repeated get_byte returns None after at most 2 * (count + 2) + 2 calls
\* that return a byte.
C16_DrainEnds ==
    /\ SomeCalls(cw, 2 * (Cap + 2) + 3, 0) \in 0..(2 * (cw.count + 2) + 2)
    /\ Len(Somes) <= 2 * (start.count + 2) + 2

C16_Witness ==
    /\ start.had_escape
    /\ start.sent = 0
    /\ phase = "reset"
    /\ Exhausted
    /\ Len(Somes) = 2 * (start.count + 2) + 1

\* C17: through new, reset, prep_for_send, send_ping_req, send_ping_cfm and
\* get_byte no byte at a payload or checksum position is 0xC0 or 0xDB:
\* had_escape is false in every reachable state and get_byte never returns
\* 0xDB, 0xDC or 0xDD, also after reset without prep_for_send and after reset
\* and prep_for_send.
C17_NoEscapeNeeded ==
    /\ ~cw.had_escape
    /\ \A k \in 1..(cw.count + 2) : ByteAt(cw, k) \notin {192, 219}
    /\ \A i \in 1..Len(out) : out[i] \notin {219, 220, 221}
    /\ get_byte(cw).ret \notin {219, 220, 221}

C17_Witness ==
    /\ phase = "reset"
    /\ cw.crc = 57841
    /\ out = <<192, 225, 241, 192, None, None>>

\* C18: get_byte, in every state and whatever it returns, leaves bytes, count
\* and crc unchanged.
C18_GetByteFrame ==
    [][GetByte =>
        /\ cw'.bytes = cw.bytes
        /\ cw'.count = cw.count
        /\ cw'.crc = cw.crc]_vars

C18_Witness ==
    /\ Exhausted
    /\ start.count = 2
    /\ start.bytes[0] = 192
    /\ start.crc = 49371
    /\ cw.sent = start.count + 4
    /\ cw.bytes = start.bytes
    /\ cw.count = start.count
    /\ cw.crc = start.crc

\* the byte stuffing reversed: 0xDB 0xDC is 0xC0, 0xDB 0xDD is 0xDB, every
\* other byte is itself
RECURSIVE Unstuff(_)
Unstuff(s) ==
    IF s = <<>> THEN <<>>
    ELSE IF Len(s) >= 2 /\ s[1] = 219 /\ s[2] = 220
    THEN <<192>> \o Unstuff(SubSeq(s, 3, Len(s)))
    ELSE IF Len(s) >= 2 /\ s[1] = 219 /\ s[2] = 221
    THEN <<219>> \o Unstuff(SubSeq(s, 3, Len(s)))
    ELSE <<s[1]>> \o Unstuff(Tail(s))

\* C19: the bytes of a complete drain begun with had_escape = false, without
\* the first and the last 0xC0 and with the byte stuffing reversed, are the
\* payload followed by crc >> 8 and crc & 0xFF.
C19_RoundTrip ==
    (CleanDrain /\ Exhausted) =>
        /\ Len(Somes) >= 2
        /\ Somes[1] = 192
        /\ Somes[Len(Somes)] = 192
        /\ Unstuff(SubSeq(Somes, 2, Len(Somes) - 1))
               = Payload(start) \o CrcBytes(start)

C19_Witness ==
    /\ CleanDrain
    /\ Exhausted
    /\ Payload(start) = <<219, 192, 33>>
    /\ start.crc = 56256
    /\ Unstuff(SubSeq(Somes, 2, Len(Somes) - 1)) = <<219, 192, 33, 219, 192>>

====
